---- MODULE Spec2Model ----
(***************************************************************************)
(* Persistence subsystem of the A2 bot: StorageManager (atomic file        *)
(* writes, per-family load/save, load_data / save_data) together with the  *)
(* in-memory containers it hydrates and persists.                          *)
(***************************************************************************)
EXTENDS Integers, Sequences, FiniteSets, TLC

VARIABLES
    disk,                   \* the file system: path -> [exists, text]
    sf,                     \* the save_file call in progress (SpecFile)
    tasks,                  \* the save_file calls of two tasks running at once (SpecPair)
    user_emotions,          \* emotion_manager.user_emotions: uid -> value
    relationship_progress,  \* emotion_manager.relationship_progress
    interaction_stats,      \* emotion_manager.interaction_stats
    user_lists,             \* family -> (uid -> value): user_memories, user_events, user_milestones
    dm_enabled_users,       \* emotion_manager.dm_enabled_users
    conversations,          \* conversation_manager.conversations
    conversation_summaries, \* conversation_manager.conversation_summaries
    user_profiles,          \* conversation_manager.user_profiles
    writable,               \* whether the data directories can be created and written
    now,                    \* the clock read by datetime.now
    appended,               \* uid -> every message add_message was given, oldest first
    last,                   \* the repository call just made: what it returned or raised,
                            \* the writes it reports as saved and those that failed
    ops                     \* number of calls made so far

vars == <<disk, sf, tasks, user_emotions, relationship_progress, interaction_stats,
          user_lists, dm_enabled_users, conversations, conversation_summaries,
          user_profiles, writable, now, appended, last, ops>>

memvars == <<user_emotions, relationship_progress, interaction_stats, user_lists,
             dm_enabled_users, conversations, conversation_summaries, user_profiles>>

(***************************************************************************)
(* Bounds                                                                  *)
(***************************************************************************)
MaxOps == 3
MaxCalls == 2

Users == {1, 2}

(***************************************************************************)
(* Python / JSON values.  Every value carries its type, as a Python object *)
(* does.                                                                   *)
(***************************************************************************)
JNull == [type |-> "null", val |-> 0]
JInt(i) == [type |-> "int", val |-> i]
JStr(s) == [type |-> "str", val |-> s]
JTime(t) == [type |-> "isotime", val |-> t]   \* the string datetime.isoformat() gives at clock t
JObj(m) == [type |-> "object", val |-> m]
JArr(s) == [type |-> "array", val |-> s]
PyObject == [type |-> "pyobject", val |-> 0]  \* a value json.dumps has no encoding for

EmptyMap == <<>>

IsObj(v) == v.type = "object"
IsArr(v) == v.type = "array"

Keys(v) == DOMAIN v.val

\* d[k] = x on a dict
Put(m, k, x) == [y \in (DOMAIN m) \cup {k} |-> IF y = k THEN x ELSE m[y]]

\* del d[k] / the dict without k
Without(m, ks) == [y \in (DOMAIN m) \ ks |-> m[y]]

\* d.get(k, default)
Get(m, k, default) == IF k \in DOMAIN m THEN m[k] ELSE default

\* bool(v)
Truthy(v) ==
    CASE v.type = "null" -> FALSE
      [] v.type = "int" -> v.val # 0
      [] v.type = "str" -> v.val # ""
      [] v.type = "object" -> DOMAIN v.val # {}
      [] v.type = "array" -> Len(v.val) > 0
      [] OTHER -> TRUE

(***************************************************************************)
(* json.dumps / json.loads.  A text is a sequence of chunks; an object is  *)
(* written as "{", one chunk per member, "}", an array as "[", one chunk   *)
(* per element, "]".                                                       *)
(***************************************************************************)
Chunk(t, k, v) == [tok |-> t, key |-> k, val |-> v]
LBrace == Chunk("{", "", JNull)
RBrace == Chunk("}", "", JNull)
LBrack == Chunk("[", "", JNull)
RBrack == Chunk("]", "", JNull)
Space == Chunk(" ", "", JNull)
Junk == Chunk("?", "", JNull)

\* the member names the documents of this store use, in the order they are written
KeyOrder == <<"mood", "last_interaction", "first_interaction", "relationship",
              "interaction_stats", "trust", "greet", "summary", "updated_at",
              "enabled_users", "user_id", "name", "nickname", "preferred_name",
              "personality_traits", "interests", "notable_facts", "relationship_context",
              "conversation_topics", "created_at", "to_dict", "get_summary",
              "update_profile", "from_dict">>

RECURSIVE Serializable(_)
Serializable(v) ==
    CASE v.type = "pyobject" -> FALSE
      [] v.type = "object" -> \A k \in DOMAIN v.val : Serializable(v.val[k])
      [] v.type = "array" -> \A i \in 1..Len(v.val) : Serializable(v.val[i])
      [] OTHER -> TRUE

RECURSIVE MemberChunks(_, _)
MemberChunks(m, order) ==
    IF order = <<>> THEN <<>>
    ELSE IF Head(order) \in DOMAIN m
         THEN <<Chunk("member", Head(order), m[Head(order)])>> \o MemberChunks(m, Tail(order))
         ELSE MemberChunks(m, Tail(order))

\* json.dumps(data, indent=2) for a serializable value
Dumps(v) ==
    CASE v.type = "object" -> <<LBrace>> \o MemberChunks(v.val, KeyOrder) \o <<RBrace>>
      [] v.type = "array" ->
            <<LBrack>> \o [i \in 1..Len(v.val) |-> Chunk("element", "", v.val[i])] \o <<RBrack>>
      [] OTHER -> <<Chunk("scalar", "", v)>>

\* str.strip(): what is left without the white space
Strip(text) == SelectSeq(text, LAMBDA c : c.tok # " ")

Middle(t) == SubSeq(t, 2, Len(t) - 1)

\* json.loads(text): [ok, val]; ok = FALSE is JSONDecodeError
Loads(text) ==
    LET Parse(t, n, inner) ==
            IF n = 1 /\ t[1].tok = "scalar"
            THEN [ok |-> TRUE, val |-> t[1].val]
            ELSE IF n >= 2 /\ t[1].tok = "{" /\ t[n].tok = "}"
                    /\ \A i \in 1..Len(inner) : inner[i].tok = "member"
            THEN [ok |-> TRUE,
                  val |-> JObj([k \in {inner[i].key : i \in 1..Len(inner)} |->
                                  LET j == CHOOSE j \in 1..Len(inner) :
                                             /\ inner[j].key = k
                                             /\ \A h \in (j + 1)..Len(inner) : inner[h].key # k
                                  IN  inner[j].val])]
            ELSE IF n >= 2 /\ t[1].tok = "[" /\ t[n].tok = "]"
                    /\ \A i \in 1..Len(inner) : inner[i].tok = "element"
            THEN [ok |-> TRUE, val |-> JArr([i \in 1..Len(inner) |-> inner[i].val])]
            ELSE [ok |-> FALSE, val |-> JNull]
        Stripped(t) == Parse(t, Len(t), Middle(t))
    IN  Stripped(Strip(text))

(***************************************************************************)
(* Files and paths                                                         *)
(***************************************************************************)
Absent == [exists |-> FALSE, text |-> <<>>]
FileOf(text) == [exists |-> TRUE, text |-> text]

\* a file name: the part before the first "_" (a numeral or not), the part
\* after it ("" when the stem holds no "_"), and the suffix
Path(dir, numeric, n, fam, suffix) ==
    [dir |-> dir, numeric |-> numeric, n |-> n, fam |-> fam, suffix |-> suffix]

ListFamilies == {"memories", "events", "milestones"}

ProfilePath(uid) == Path("profiles", TRUE, uid, "", ".json")
ListPath(fam, uid) == Path("profiles", TRUE, uid, fam, ".json")
UserProfilePath(uid) == Path("user_profiles", TRUE, uid, "profile", ".json")
ConversationPath(uid) == Path("conversations", TRUE, uid, "conversations", ".json")
SummaryPath(uid) == Path("conversations", TRUE, uid, "summary", ".json")
DmSettingsFile == Path("data", FALSE, 0, "settings", ".json")    \* e.g. data/dm_settings.json
StrayProfile == Path("profiles", FALSE, 0, "", ".json")   \* e.g. profiles/backup.json

\* path.with_suffix(temp_suffix)
TempPathInPlace(path) == path
TempPathShared(path) == [DmSettingsFile EXCEPT !.suffix = ".tmp"]
TempPath(path) == [path EXCEPT !.suffix = ".tmp"]

DataPaths ==
    {ProfilePath(u) : u \in Users} \cup {ListPath(f, u) : f \in ListFamilies, u \in Users}
    \cup {UserProfilePath(u) : u \in Users} \cup {ConversationPath(u) : u \in Users}
    \cup {SummaryPath(u) : u \in Users} \cup {DmSettingsFile, StrayProfile}

Paths == DataPaths \cup {TempPath(p) : p \in DataPaths}

EmptyDisk == [p \in Paths |-> Absent]

\* temp_path.write_text(...) after k chunks have reached the file
WriteText(d, p, text) == [d EXCEPT ![p] = FileOf(text)]

\* temp_path.replace(path): os.replace either renames src onto dst in one step
\* or fails and changes nothing
ReplaceUnlinkFirst(d, src, dst, ok) ==
    IF ok THEN [d EXCEPT ![dst] = d[src], ![src] = Absent]
    ELSE [d EXCEPT ![dst] = Absent]
Replace(d, src, dst, ok) ==
    IF ok /\ src # dst THEN [d EXCEPT ![dst] = d[src], ![src] = Absent]
    ELSE d

(***************************************************************************)
(* save_file, step by step: serialize, open the temporary file, write it   *)
(* chunk by chunk, rename it onto the target.  The process can be killed   *)
(* between any two steps.                                                  *)
(***************************************************************************)
SfIdle == [pc |-> "idle", path |-> DmSettingsFile, data |-> JNull, text |-> <<>>,
           written |-> 0, pre |-> Absent, renamed |-> FALSE, ret |-> FALSE, calls |-> 0]

\* no task has called save_file
\* (fault: a step of the call was made to fail; met: the other task was
\* between its temp-write and its rename when this one opened its own file)
TaskIdle == [pc |-> "idle", path |-> DmSettingsFile, data |-> JNull, text |-> <<>>,
             written |-> 0, fault |-> FALSE, met |-> FALSE, ret |-> FALSE]
NoTasks == [i \in {1, 2} |-> TaskIdle]

\* the targets and values save_file is called with
SaveTargets == {ProfilePath(1), DmSettingsFile}

Doc42 == JObj([k \in {"mood", "relationship", "interaction_stats"} |->
                CASE k = "mood" -> JStr("happy")
                  [] k = "relationship" -> JObj([t \in {"trust"} |-> JInt(5)])
                  [] k = "interaction_stats" -> JObj([t \in {"greet"} |-> JInt(3)])])

SaveInputs == {Doc42, JObj(EmptyMap), JArr(<<JInt(1), JInt(2)>>), JArr(<<PyObject>>)}

\* what a target may hold before a call
OldFiles == {Absent, FileOf(Dumps(JArr(<<JInt(7)>>))), FileOf(<<LBrace, Junk>>)}

\* async def save_file(self, path, data, temp_suffix='.tmp'): entry
SaveFileCall(path, data) ==
    /\ sf.pc \in {"idle", "done"}
    /\ sf.calls < MaxCalls
    /\ sf' = [pc |-> "dumps", path |-> path, data |-> data, text |-> <<>>, written |-> 0,
              pre |-> disk[path], renamed |-> FALSE, ret |-> FALSE, calls |-> sf.calls + 1]
    /\ UNCHANGED <<tasks, disk, memvars, writable, now, appended, last, ops>>

\* json.dumps(data, indent=2); a TypeError is caught and save_file returns False
SaveFileDumps ==
    /\ sf.pc = "dumps"
    /\ IF Serializable(sf.data)
       THEN sf' = [sf EXCEPT !.pc = "open", !.text = Dumps(sf.data)]
       ELSE sf' = [sf EXCEPT !.pc = "done", !.ret = FALSE]
    /\ UNCHANGED <<tasks, disk, memvars, writable, now, appended, last, ops>>

\* write_text opens temp_path for writing: the file exists and is empty
SaveFileOpen ==
    /\ sf.pc = "open"
    /\ disk' = WriteText(disk, TempPath(sf.path), <<>>)
    /\ sf' = [sf EXCEPT !.pc = "write"]
    /\ UNCHANGED <<tasks, memvars, writable, now, appended, last, ops>>

\* write_text: one more chunk reaches the temporary file; after the last one
\* the file is closed
SaveFileWrite ==
    /\ sf.pc = "write"
    /\ LET k == sf.written + 1
       IN  IF k <= Len(sf.text)
           THEN /\ disk' = WriteText(disk, TempPath(sf.path), SubSeq(sf.text, 1, k))
                /\ sf' = [sf EXCEPT !.written = k,
                                    !.pc = IF k = Len(sf.text) THEN "replace" ELSE "write"]
           ELSE /\ disk' = disk
                /\ sf' = [sf EXCEPT !.pc = "replace"]
    /\ UNCHANGED <<tasks, memvars, writable, now, appended, last, ops>>

\* an OSError while opening or writing the temporary file: caught, returns False
SaveFileIOError ==
    /\ sf.pc \in {"open", "write"}
    /\ sf' = [sf EXCEPT !.pc = "done", !.ret = FALSE]
    /\ UNCHANGED <<tasks, disk, memvars, writable, now, appended, last, ops>>

\* if temp_path.exists(): temp_path.replace(path); return True
\* the rename succeeds, or raises an OSError that is caught; return False otherwise
SaveFileReplace ==
    /\ sf.pc = "replace"
    /\ IF disk[TempPath(sf.path)].exists
       THEN \E ok \in BOOLEAN :
               /\ disk' = Replace(disk, TempPath(sf.path), sf.path, ok)
               /\ sf' = [sf EXCEPT !.pc = "done", !.ret = ok, !.renamed = ok]
       ELSE /\ disk' = disk
            /\ sf' = [sf EXCEPT !.pc = "done", !.ret = FALSE]
    /\ UNCHANGED <<tasks, memvars, writable, now, appended, last, ops>>

\* the process is killed inside save_file
Kill ==
    /\ sf.pc \in {"dumps", "open", "write", "replace"}
    /\ sf' = [sf EXCEPT !.pc = "killed"]
    /\ UNCHANGED <<tasks, disk, memvars, writable, now, appended, last, ops>>

\* a new process starts on the files the killed one left
Restart ==
    /\ sf.pc = "killed"
    /\ sf' = [SfIdle EXCEPT !.calls = sf.calls]
    /\ UNCHANGED <<tasks, disk, memvars, writable, now, appended, last, ops>>

NoCall == [op |-> "none", ret |-> FALSE, raised |-> "none", failed |-> {}, written |-> {},
           profiles |-> 0, errors |-> 0]

MemInit ==
    /\ user_emotions = EmptyMap
    /\ relationship_progress = EmptyMap
    /\ interaction_stats = EmptyMap
    /\ user_lists = [f \in ListFamilies |-> EmptyMap]
    /\ dm_enabled_users = {}
    /\ conversations = EmptyMap
    /\ conversation_summaries = EmptyMap
    /\ user_profiles = EmptyMap

\* the containers after some interaction: user 1 has an emotion record, a
\* relationship, interaction counts, one memory and an emptied events list;
\* user 2 has two milestones and no emotion record
MemBusy ==
    /\ user_emotions = [u \in {1} |-> JObj([k \in {"mood"} |-> JStr("happy")])]
    /\ relationship_progress = [u \in {1} |-> JObj([t \in {"trust"} |-> JInt(5)])]
    /\ interaction_stats = [u \in {1} |-> JObj([t \in {"greet"} |-> JInt(1)])]
    /\ user_lists = [f \in ListFamilies |->
                        CASE f = "memories" -> [u \in {1} |-> JArr(<<JInt(1)>>)]
                          [] f = "events" -> [u \in {1} |-> JArr(<<>>)]
                          [] OTHER -> [u \in {2} |-> JArr(<<JInt(1), JInt(2)>>)]]
    /\ dm_enabled_users = {1}
    /\ conversations = EmptyMap
    /\ conversation_summaries = EmptyMap
    /\ user_profiles = EmptyMap

InitFile ==
    /\ \E old \in [SaveTargets -> OldFiles] :
          disk = [p \in Paths |-> IF p \in SaveTargets THEN old[p] ELSE Absent]
    /\ sf = SfIdle
    /\ tasks = NoTasks
    /\ MemInit
    /\ writable = TRUE
    /\ now = 0
    /\ appended = EmptyMap
    /\ last = NoCall
    /\ ops = 0

NextFile ==
    \/ \E path \in SaveTargets, data \in SaveInputs : SaveFileCall(path, data)
    \/ SaveFileDumps
    \/ SaveFileOpen
    \/ SaveFileWrite
    \/ SaveFileIOError
    \/ SaveFileReplace
    \/ Kill
    \/ Restart

SpecFile == InitFile /\ [][NextFile]_vars

\* the file a completed json.dumps + write_text + replace leaves at the target
NewFile == FileOf(Dumps(sf.data))

(***************************************************************************)
(* C1: during save_file(path, data), at every instant - also when the      *)
(* process is killed after the temporary file is written and before the    *)
(* rename - the target holds exactly its pre-call content (absent if it    *)
(* did not exist) until the rename, and exactly the complete serialization *)
(* of data from the rename on; never anything else.                        *)
(***************************************************************************)
C1_AtomicTarget ==
    sf.pc # "idle" =>
        /\ disk[sf.path] = IF sf.renamed THEN NewFile ELSE sf.pre
        /\ (sf.pc = "done" /\ sf.ret) => sf.renamed

\* killed between the temp-write and the rename, with old content at the target
C1_Witness ==
    /\ sf.pc = "killed"
    /\ sf.text # <<>>
    /\ disk[TempPath(sf.path)] = FileOf(sf.text)
    /\ sf.pre.exists
    /\ sf.pre # NewFile
    /\ disk[sf.path] = sf.pre

(***************************************************************************)
(* C2: when save_file fails at any step (serializing, writing the          *)
(* temporary file, the rename) it returns False, raises nothing, and the   *)
(* target is exactly as before the call.                                   *)
(***************************************************************************)
C2_FailureLeavesTarget ==
    (sf.pc = "done" /\ ~sf.ret) => disk[sf.path] = sf.pre /\ ~sf.renamed

\* a failed rename over an existing target, the temporary file fully written
C2_Witness ==
    /\ sf.pc = "done"
    /\ ~sf.ret
    /\ sf.pre.exists
    /\ disk[TempPath(sf.path)] = FileOf(sf.text)
    /\ sf.text # <<>>
    /\ sf.text # sf.pre.text

(***************************************************************************)
(* The repository: save_file as one call, the per-family save primitives,  *)
(* save_data and load_data.                                                *)
(***************************************************************************)
MaxList == 2
MaxCount == 1

\* how a write can fail: the open fails, the write fails part way (the
\* temporary file keeps what had reached it, here its first chunk), or the
\* rename fails
FaultKinds == {"open", "write", "replace"}

\* one whole save_file(path, data) call; flt is "none" or the step that fails
SaveFile(d, path, data, flt) ==
    LET tmp == TempPath(path)
        Rename(d1) ==
            IF d1[tmp].exists
            THEN [disk |-> Replace(d1, tmp, path, flt # "replace"), ret |-> flt # "replace"]
            ELSE [disk |-> d1, ret |-> FALSE]
        Write(text) ==
            IF flt = "write"
            THEN [disk |-> WriteText(d, tmp, SubSeq(text, 1, 1)), ret |-> FALSE]
            ELSE Rename(WriteText(d, tmp, text))
    IN  IF ~Serializable(data) THEN [disk |-> d, ret |-> FALSE]
        ELSE IF flt = "open" THEN [disk |-> d, ret |-> FALSE]
        ELSE Write(Dumps(data))

\* the fault, if any, of the write to path in a pass whose failing writes are F
FaultAt(F, kind, path) == IF path \in F THEN kind ELSE "none"

\* len(x) is defined
HasLen(v) == v.type \in {"array", "object", "str"}

EmptyObj == JObj(EmptyMap)

\* the three "Save ... if they exist" blocks of save_user_profile, in order
ListOrder == <<"memories", "events", "milestones">>

SaveListsAlways(fams, uid, d, F, kind) ==
    LET RECURSIVE Go(_, _)
        Go(fs, dd) ==
            LET path == ListPath(Head(fs), uid)
                Add(r, rest) ==
                    [rest EXCEPT !.failed = @ \cup (IF r.ret THEN {} ELSE {path}),
                                 !.written = @ \cup (IF r.ret THEN {path} ELSE {})]
                After(r) == Add(r, Go(Tail(fs), r.disk))
            IN  IF fs = <<>>
                THEN [disk |-> dd, failed |-> {}, written |-> {}, raised |-> FALSE]
                ELSE After(SaveFile(dd, path, Get(user_lists[Head(fs)], uid, JArr(<<>>)),
                                    FaultAt(F, kind, path)))
    IN  Go(fams, d)

\* lines 152-171
SaveLists(fams, uid, d, F, kind) ==
    LET RECURSIVE Go(_, _)
        Go(fs, dd) ==
            LET f == Head(fs)
                path == ListPath(f, uid)
                Add(r, rest) ==
                    [rest EXCEPT !.failed = @ \cup (IF r.ret THEN {} ELSE {path}),
                                 !.written = @ \cup (IF r.ret THEN {path} ELSE {})]
                After(r) ==
                    IF r.ret /\ ~HasLen(user_lists[f][uid])
                    THEN [disk |-> r.disk, failed |-> {}, written |-> {path}, raised |-> TRUE]
                    ELSE Add(r, Go(Tail(fs), r.disk))
            IN  IF fs = <<>>
                THEN [disk |-> dd, failed |-> {}, written |-> {}, raised |-> FALSE]
                ELSE IF uid \in DOMAIN user_lists[f] /\ Truthy(user_lists[f][uid])
                THEN After(SaveFile(dd, path, user_lists[f][uid], FaultAt(F, kind, path)))
                ELSE Go(Tail(fs), dd)
    IN  Go(fams, d)

\* save_user_profile(user_id, emotion_manager) on disk d and emotion container em:
\* the new disk, the new emotion container (data is the container's own dict,
\* so the two added keys stay in it), the value returned and the writes that failed
SaveUserProfile(uid, d, em, F, kind) ==
    LET data == Get(em, uid, EmptyObj)
        rel == Get(relationship_progress, uid, EmptyObj)
        stats == Get(interaction_stats, uid, EmptyObj)
        path == ProfilePath(uid)
        Result(composite, r, ls) ==
            [disk |-> ls.disk,
             emotions |-> IF uid \in DOMAIN em THEN [em EXCEPT ![uid] = composite] ELSE em,
             ret |-> ~ls.raised,
             failed |-> ls.failed \cup (IF r.ret THEN {} ELSE {path}),
             written |-> ls.written \cup (IF r.ret THEN {path} ELSE {})]
        Lists(composite, r) == Result(composite, r, SaveLists(ListOrder, uid, r.disk, F, kind))
        Write(composite) ==
            Lists(composite, SaveFile(d, path, composite, FaultAt(F, kind, path)))
    IN  IF ~IsObj(data)
        THEN [disk |-> d, emotions |-> em, ret |-> FALSE, failed |-> {}, written |-> {}]
        ELSE IF ~IsObj(stats)
        THEN [disk |-> d,
              emotions |-> IF uid \in DOMAIN em
                           THEN [em EXCEPT ![uid] = JObj(Put(data.val, "relationship", rel))]
                           ELSE em,
              ret |-> FALSE, failed |-> {}, written |-> {}]
        ELSE Write(JObj(Put(Put(data.val, "relationship", rel), "interaction_stats", stats)))

\* save_conversation(user_id, conversation_manager): always returns True
SaveConversation(uid, d, F, kind) ==
    LET cpath == ConversationPath(uid)
        spath == SummaryPath(uid)
        hasConv == uid \in DOMAIN conversations
        hasSum == uid \in DOMAIN conversation_summaries
        sdoc == JObj([k \in {"summary", "updated_at"} |->
                        IF k = "summary" THEN Get(conversation_summaries, uid, JNull)
                        ELSE JTime(now)])
        Result(r1, r2) ==
            [disk |-> r2.disk, ret |-> TRUE,
             failed |-> (IF r1.ret THEN {} ELSE {cpath}) \cup (IF r2.ret THEN {} ELSE {spath}),
             written |-> (IF hasConv /\ r1.ret THEN {cpath} ELSE {})
                         \cup (IF hasSum /\ r2.ret THEN {spath} ELSE {})]
        Summary(r1) ==
            Result(r1, IF hasSum
                       THEN SaveFile(r1.disk, spath, sdoc, FaultAt(F, kind, spath))
                       ELSE [disk |-> r1.disk, ret |-> TRUE])
    IN  Summary(IF hasConv
                THEN SaveFile(d, cpath, conversations[uid], FaultAt(F, kind, cpath))
                ELSE [disk |-> d, ret |-> TRUE])

\* save_user_profile_data(user_id, profile): always returns True
SaveUserProfileData(uid, d, F, kind) ==
    LET path == UserProfilePath(uid)
        Result(r) == [disk |-> r.disk, ret |-> TRUE, failed |-> IF r.ret THEN {} ELSE {path},
                      written |-> IF r.ret THEN {path} ELSE {}]
    IN  Result(SaveFile(d, path, user_profiles[uid], FaultAt(F, kind, path)))

\* list(dm_enabled_users): the elements in some order
Orders(S) == {q \in [1..Cardinality(S) -> S] : \A i, j \in 1..Cardinality(S) : q[i] = q[j] => i = j}

\* save_dm_settings(dm_enabled_users) with the list in order q
SaveDmSettings(d, q, F, kind) ==
    SaveFile(d, DmSettingsFile,
             JObj([k \in {"enabled_users"} |-> JArr([i \in 1..Len(q) |-> JInt(q[i])])]),
             FaultAt(F, kind, DmSettingsFile))

\* the users in the order save_data visits them
UserOrder(S) ==
    LET RECURSIVE Asc(_)
        Asc(T) == IF T = {} THEN <<>>
                  ELSE LET x == CHOOSE x \in T : \A y \in T : x <= y
                       IN  <<x>> \o Asc(T \ {x})
    IN  Asc(S)

\* the body of the loop of save_data for one user (lines 276-288)
SaveOneUser(uid, acc, withCM, F, kind) ==
    LET inConv == withCM /\ uid \in DOMAIN conversations
        Skipped(dd) == [disk |-> dd, ret |-> TRUE, failed |-> {}, written |-> {}]
        Result(p, c, u) ==
            [disk |-> u.disk, emotions |-> p.emotions,
             success |-> acc.success /\ p.ret /\ c.ret /\ u.ret,
             failed |-> acc.failed \cup p.failed \cup c.failed \cup u.failed,
             written |-> acc.written \cup p.written \cup c.written \cup u.written]
        Profile(p, c) ==
            Result(p, c, IF inConv /\ uid \in DOMAIN user_profiles
                         THEN SaveUserProfileData(uid, c.disk, F, kind)
                         ELSE Skipped(c.disk))
        Conversation(p) ==
            Profile(p, IF inConv THEN SaveConversation(uid, p.disk, F, kind)
                       ELSE Skipped(p.disk))
    IN  Conversation(SaveUserProfile(uid, acc.disk, acc.emotions, F, kind))

\* the for loop of save_data
SaveUsers(order, d, em, withCM, F, kind) ==
    LET RECURSIVE Go(_, _)
        Go(us, acc) == IF us = <<>> THEN acc
                       ELSE Go(Tail(us), SaveOneUser(Head(us), acc, withCM, F, kind))
    IN  Go(order, [disk |-> d, emotions |-> em, success |-> TRUE, failed |-> {},
                   written |-> {}])

\* the files a save_data pass writes: where a write can fail
WritesOf(withCM) ==
    {ProfilePath(u) : u \in DOMAIN user_emotions}
    \cup {ListPath(f, u) : f \in ListFamilies, u \in DOMAIN user_emotions}
    \cup (IF withCM
          THEN {ConversationPath(u) : u \in DOMAIN user_emotions \cap DOMAIN conversations}
               \cup {SummaryPath(u) : u \in DOMAIN user_emotions \cap DOMAIN conversations
                                             \cap DOMAIN conversation_summaries}
               \cup {UserProfilePath(u) : u \in DOMAIN user_emotions \cap DOMAIN conversations
                                                 \cap DOMAIN user_profiles}
          ELSE {})
    \cup {DmSettingsFile}

\* the failing writes of one pass: none, or one of them, at any of its steps
FaultChoices(withCM) ==
    {[F |-> {}, kind |-> "open"]}
    \cup {[F |-> {p}, kind |-> k] : p \in WritesOf(withCM), k \in FaultKinds}

\* async def save_data(self, emotion_manager, conversation_manager=None)
save_data ==
    /\ ops < MaxOps
    /\ \E withCM \in BOOLEAN, q \in Orders(dm_enabled_users) :
         \E flt \in FaultChoices(withCM) :
          LET Commit(r, dm) ==
                  /\ disk' = dm.disk
                  /\ user_emotions' = r.emotions
                  /\ last' = [op |-> "save_data", ret |-> r.success /\ dm.ret,
                              raised |-> "none",
                              failed |-> r.failed
                                         \cup (IF dm.ret THEN {} ELSE {DmSettingsFile}),
                              written |-> r.written
                                          \cup (IF dm.ret THEN {DmSettingsFile} ELSE {}),
                              profiles |-> 0, errors |-> 0, cm |-> withCM]
              Settings(r) == Commit(r, SaveDmSettings(r.disk, q, flt.F, flt.kind))
          IN  Settings(SaveUsers(UserOrder(DOMAIN user_emotions), disk, user_emotions,
                                 withCM, flt.F, flt.kind))
    /\ ops' = ops + 1
    /\ UNCHANGED <<tasks, sf, relationship_progress, interaction_stats, user_lists,
                   dm_enabled_users, conversations, conversation_summaries,
                   user_profiles, writable, now, appended>>

(***************************************************************************)
(* verify_data_directories: every mkdir and the write probe succeed iff    *)
(* the file system lets them; the probe file is removed again.             *)
(***************************************************************************)
VerifyDataDirectories == writable

verify_data_directories ==
    /\ ops < MaxOps
    /\ last' = [NoCall EXCEPT !.op = "verify_data_directories", !.ret = VerifyDataDirectories]
    /\ ops' = ops + 1
    /\ UNCHANGED <<tasks, disk, sf, memvars, writable, now, appended>>

\* the data directory becomes read-only, or writable again
Remount ==
    /\ ops < MaxOps
    /\ writable' = ~writable
    /\ last' = NoCall
    /\ ops' = ops + 1
    /\ UNCHANGED <<tasks, disk, sf, memvars, now, appended>>

(***************************************************************************)
(* load_data.  storage.py imports json, asyncio, datetime, timezone,       *)
(* Counter and Path; a name used in a function body is looked up when the  *)
(* statement runs and an unbound one raises NameError.                     *)
(***************************************************************************)
ModuleGlobals == {"json", "asyncio", "datetime", "timezone", "Counter", "Path",
                  "StorageManager"}

NameBound(name) == name \in ModuleGlobals

\* what the call leaves when line 301 raises: line 300 has run, nothing else
LoadRaisesNameError ==
    /\ user_emotions' = EmptyMap
    /\ last' = [NoCall EXCEPT !.op = "load_data", !.raised = "NameError"]
    /\ UNCHANGED <<tasks, disk, relationship_progress, interaction_stats, user_lists,
                   dm_enabled_users, conversations, conversation_summaries, user_profiles>>

(***************************************************************************)
(* The collaborators: the emotion manager's updates of its containers.     *)
(***************************************************************************)
Moods == {"happy"}

\* an emotional update for user uid: creates the record on first use
UpdateEmotion(uid, mood) ==
    /\ ops < MaxOps
    /\ last' = NoCall
    /\ LET old == Get(user_emotions, uid, EmptyObj)
       IN  /\ IsObj(old)
           /\ user_emotions' = Put(user_emotions, uid,
                                   JObj(Put(Put(old.val, "mood", JStr(mood)),
                                            "last_interaction", JTime(now))))
           /\ user_emotions' # user_emotions
    /\ ops' = ops + 1
    /\ UNCHANGED <<tasks, disk, sf, relationship_progress, interaction_stats, user_lists,
                   dm_enabled_users, conversations, conversation_summaries,
                   user_profiles, writable, now, appended>>

\* relationship_progress[uid] = {...}
SetRelationship(uid) ==
    /\ ops < MaxOps
    /\ last' = NoCall
    /\ relationship_progress' = Put(relationship_progress, uid,
                                    JObj([k \in {"trust"} |-> JInt(5)]))
    /\ relationship_progress' # relationship_progress
    /\ ops' = ops + 1
    /\ UNCHANGED <<tasks, disk, sf, user_emotions, interaction_stats, user_lists,
                   dm_enabled_users, conversations, conversation_summaries,
                   user_profiles, writable, now, appended>>

\* interaction_stats[uid]["greet"] += 1
RecordInteraction(uid) ==
    /\ ops < MaxOps
    /\ last' = NoCall
    /\ LET old == Get(interaction_stats, uid, EmptyObj)
           n == Get(old.val, "greet", JInt(0)).val
       IN  /\ IsObj(old)
           /\ n < MaxCount
           /\ interaction_stats' = Put(interaction_stats, uid,
                                       JObj(Put(old.val, "greet", JInt(n + 1))))
    /\ ops' = ops + 1
    /\ UNCHANGED <<tasks, disk, sf, user_emotions, relationship_progress, user_lists,
                   dm_enabled_users, conversations, conversation_summaries,
                   user_profiles, writable, now, appended>>

\* user_memories[uid].append(record), likewise user_events and user_milestones
AppendList(fam, uid) ==
    /\ ops < MaxOps
    /\ last' = NoCall
    /\ LET old == Get(user_lists[fam], uid, JArr(<<>>))
       IN  /\ IsArr(old)
           /\ Len(old.val) < MaxList
           /\ user_lists' = [user_lists EXCEPT ![fam] =
                                Put(@, uid, JArr(Append(old.val, JInt(Len(old.val) + 1))))]
    /\ ops' = ops + 1
    /\ UNCHANGED <<tasks, disk, sf, user_emotions, relationship_progress, interaction_stats,
                   dm_enabled_users, conversations, conversation_summaries,
                   user_profiles, writable, now, appended>>

\* user_memories[uid].clear(): the list is emptied
ClearList(fam, uid) ==
    /\ ops < MaxOps
    /\ last' = NoCall
    /\ uid \in DOMAIN user_lists[fam]
    /\ Truthy(user_lists[fam][uid])
    /\ user_lists' = [user_lists EXCEPT ![fam] = Put(@, uid, JArr(<<>>))]
    /\ ops' = ops + 1
    /\ UNCHANGED <<tasks, disk, sf, user_emotions, relationship_progress, interaction_stats,
                   dm_enabled_users, conversations, conversation_summaries,
                   user_profiles, writable, now, appended>>

\* dm_enabled_users.add(uid)
EnableDm(uid) ==
    /\ ops < MaxOps
    /\ last' = NoCall
    /\ uid \notin dm_enabled_users
    /\ dm_enabled_users' = dm_enabled_users \cup {uid}
    /\ ops' = ops + 1
    /\ UNCHANGED <<tasks, disk, sf, user_emotions, relationship_progress, interaction_stats,
                   user_lists, conversations, conversation_summaries,
                   user_profiles, writable, now, appended>>

(***************************************************************************)
(* The body of load_data after the containers are reset (lines 307-434).   *)
(***************************************************************************)
\* the files glob(pattern) yields in a directory: those named <x>_<fam>.json,
\* or <x>.json with no "_" in the stem when fam = ""
Glob(d, dir, fam) ==
    {p \in Paths : p.dir = dir /\ p.suffix = ".json" /\ p.fam = fam /\ d[p].exists}

\* int(stem) / int(stem.split("_")[0]), read_text, strip, json.loads for one file:
\* "error" (an exception), "blank" (nothing but white space) or "ok" with the value
ReadDoc(d, p) ==
    LET Decoded(r) ==
            IF r.ok THEN [st |-> "ok", val |-> r.val] ELSE [st |-> "error", val |-> JNull]
    IN  IF ~p.numeric THEN [st |-> "error", val |-> JNull]
        ELSE IF Strip(d[p].text) = <<>> THEN [st |-> "blank", val |-> JNull]
        ELSE Decoded(Loads(d[p].text))

\* key in data: TRUE / FALSE, or "raise" (TypeError) for a value that is no container
InTest(k, v) ==
    CASE v.type = "object" -> IF k \in DOMAIN v.val THEN "yes" ELSE "no"
      [] v.type = "array" -> IF \E i \in 1..Len(v.val) : v.val[i] = JStr(k) THEN "yes" ELSE "no"
      [] v.type \in {"str", "isotime"} -> "no"
      [] OTHER -> "raise"

\* Counter(x): a mapping gives its counts, None gives the empty Counter; a
\* number raises TypeError (an array of unhashable elements does too)
CounterOf(v) ==
    CASE v.type = "object" -> [ok |-> TRUE, val |-> v]
      [] v.type = "null" -> [ok |-> TRUE, val |-> EmptyObj]
      [] OTHER -> [ok |-> FALSE, val |-> EmptyObj]

NoEntry == [has |-> FALSE, val |-> JNull]
Entry(v) == [has |-> TRUE, val |-> v]

\* lines 319-340 for one file <uid>.json: what reaches the three containers and
\* whether the file counts as loaded, as an error, or as blank
LoadProfileFile(d, p) ==
    LET Split(r) ==
            LET data == r.val
                inRel == InTest("relationship", data)
                inStats == InTest("interaction_stats", data)
                rel == IF inRel = "yes" THEN Entry(data.val["relationship"]) ELSE NoEntry
            IN  IF r.st # "ok"
                THEN [emotion |-> NoEntry, rel |-> NoEntry, stats |-> NoEntry, st |-> r.st]
                ELSE IF inRel = "raise" \/ (inRel = "yes" /\ ~IsObj(data))
                THEN [emotion |-> Entry(data), rel |-> NoEntry, stats |-> NoEntry,
                      st |-> "error"]
                ELSE IF inStats = "yes" /\ ~IsObj(data)
                THEN [emotion |-> Entry(data), rel |-> rel, stats |-> NoEntry, st |-> "error"]
                ELSE IF inStats = "yes" /\ ~CounterOf(data.val["interaction_stats"]).ok
                THEN [emotion |-> Entry(data), rel |-> rel, stats |-> NoEntry, st |-> "error"]
                ELSE [emotion |-> Entry(data), rel |-> rel,
                      stats |-> IF inStats = "yes"
                                THEN Entry(CounterOf(data.val["interaction_stats"]).val)
                                ELSE NoEntry,
                      st |-> "ok"]
    IN  Split(ReadDoc(d, p))

\* the container a loop over files builds: uid -> value, for the files whose
\* entry is set
Collect(entryOf) ==
    [u \in {p.n : p \in {q \in DOMAIN entryOf : q.numeric /\ entryOf[q].has}} |->
        entryOf[CHOOSE q \in DOMAIN entryOf : q.numeric /\ q.n = u /\ entryOf[q].has].val]

\* lines 347-354 for one list file (likewise events, milestones, conversations)
LoadPlainFile(d, p) ==
    LET r == ReadDoc(d, p)
    IN  IF r.st = "ok" THEN Entry(r.val) ELSE NoEntry

\* lines 410-416 for one summary file: data.get("summary", "")
LoadSummaryFile(d, p) ==
    LET r == ReadDoc(d, p)
    IN  IF r.st = "ok" /\ IsObj(r.val) THEN Entry(Get(r.val.val, "summary", JStr("")))
        ELSE NoEntry

\* UserProfile.__init__ fields and the attributes hasattr finds besides them
ProfileFields == {"user_id", "name", "nickname", "preferred_name", "personality_traits",
                  "interests", "notable_facts", "relationship_context",
                  "conversation_topics", "created_at", "updated_at"}
ProfileMethods == {"update_profile", "to_dict", "from_dict", "get_summary"}

\* UserProfile(user_id).__dict__
NewProfile(user_id, t) ==
    [k \in ProfileFields |->
        CASE k = "user_id" -> user_id
          [] k \in {"name", "nickname", "preferred_name"} -> JNull
          [] k \in {"created_at", "updated_at"} -> JTime(t)
          [] OTHER -> JArr(<<>>)]

\* UserProfile.from_dict(data).__dict__ for a dict data
FromDict(data, t) ==
    LET base == NewProfile(Get(data.val, "user_id", JNull), t)
        set == {k \in DOMAIN data.val : k \in ProfileFields \cup ProfileMethods}
    IN  JObj([k \in ProfileFields \cup set |-> IF k \in set THEN data.val[k] ELSE base[k]])

\* lines 383-392 for one profile file; profs is conversation_manager.user_profiles
LoadUserProfileFile(d, p, profs, t) ==
    LET r == ReadDoc(d, p)
    IN  IF r.st = "ok" /\ p.n \in DOMAIN profs /\ IsObj(r.val)
        THEN Entry(FromDict(r.val, t))
        ELSE NoEntry

\* lines 425-428 for one record: "raise" when the record is no dict
Backfill(v, t) ==
    IF ~IsObj(v) THEN [ok |-> FALSE, val |-> v]
    ELSE IF "first_interaction" \in DOMAIN v.val THEN [ok |-> TRUE, val |-> v]
    ELSE [ok |-> TRUE,
          val |-> JObj(Put(v.val, "first_interaction",
                           Get(v.val, "last_interaction", JTime(t))))]

LoadDmSettingsHead(d) ==
    LET f == d[DmSettingsFile]
        r == Loads(f.text)
    IN  IF f.exists /\ Strip(f.text) # <<>> /\ r.ok /\ IsObj(r.val)
        THEN LET l == Get(r.val.val, "enabled_users", JArr(<<>>))
             IN  IF IsArr(l) /\ Len(l.val) > 0 /\ l.val[1].type = "int"
                 THEN {l.val[1].val}
                 ELSE {}
        ELSE {}

\* load_dm_settings(): the set read, empty when the file is absent, blank or
\* not of the expected shape
LoadDmSettings(d) ==
    LET f == d[DmSettingsFile]
        r == Loads(f.text)
    IN  IF f.exists /\ Strip(f.text) # <<>> /\ r.ok /\ IsObj(r.val)
        THEN LET l == Get(r.val.val, "enabled_users", JArr(<<>>))
             IN  IF IsArr(l) /\ \A i \in 1..Len(l.val) : l.val[i].type = "int"
                 THEN {l.val[i].val : i \in 1..Len(l.val)}
                 ELSE {}
        ELSE {}

\* m overrides base where it has an entry
Merge(base, m) == [u \in (DOMAIN base) \cup (DOMAIN m) |-> IF u \in DOMAIN m THEN m[u] ELSE base[u]]

\* the state lines 307-434 leave, from disk d: the containers, the value
\* returned or the exception raised, and the two counts of line 342
LoadBody(d) ==
    LET unread == [emotions |-> EmptyMap, rel |-> EmptyMap, stats |-> EmptyMap,
                   lists |-> [f \in ListFamilies |-> EmptyMap], dm |-> dm_enabled_users,
                   convs |-> conversations, sums |-> conversation_summaries,
                   profs |-> user_profiles, ret |-> FALSE, raised |-> "none",
                   profiles |-> 0, errors |-> 0]
        Result(res, emo, filled, profs, raises) ==
            [emotions |-> IF raises THEN emo ELSE [u \in DOMAIN emo |-> filled[u].val],
             rel |-> Collect([p \in DOMAIN res |-> res[p].rel]),
             stats |-> Collect([p \in DOMAIN res |-> res[p].stats]),
             lists |-> [f \in ListFamilies |->
                          Collect([p \in Glob(d, "profiles", f) |-> LoadPlainFile(d, p)])],
             dm |-> IF raises THEN dm_enabled_users ELSE LoadDmSettings(d),
             convs |-> Merge(conversations,
                             Collect([p \in Glob(d, "conversations", "conversations") |->
                                        LoadPlainFile(d, p)])),
             sums |-> Merge(conversation_summaries,
                            Collect([p \in Glob(d, "conversations", "summary") |->
                                       LoadSummaryFile(d, p)])),
             profs |-> Merge(user_profiles, profs),
             ret |-> ~raises /\ DOMAIN profs # {},
             raised |-> IF raises THEN "AttributeError" ELSE "none",
             profiles |-> Cardinality({p \in DOMAIN res : res[p].st = "ok"}),
             errors |-> Cardinality({p \in DOMAIN res : res[p].st = "error"})]
        Filled(res, emo, filled) ==
            Result(res, emo, filled,
                   Collect([p \in Glob(d, "user_profiles", "profile") |->
                              LoadUserProfileFile(d, p, user_profiles, now)]),
                   \E u \in DOMAIN emo : ~filled[u].ok)
        Emotions(res, emo) == Filled(res, emo, [u \in DOMAIN emo |-> Backfill(emo[u], now)])
        Profiles(res) == Emotions(res, Collect([p \in DOMAIN res |-> res[p].emotion]))
    IN  IF ~VerifyDataDirectories THEN unread
        ELSE Profiles([p \in Glob(d, "profiles", "") |-> LoadProfileFile(d, p)])

\* async def load_data(self, emotion_manager, conversation_manager)
load_data ==
    /\ ops < MaxOps
    /\ IF NameBound("defaultdict")
       THEN LET Assign(r) ==
                    /\ user_emotions' = r.emotions
                    /\ relationship_progress' = r.rel
                    /\ interaction_stats' = r.stats
                    /\ user_lists' = r.lists
                    /\ dm_enabled_users' = r.dm
                    /\ conversations' = r.convs
                    /\ conversation_summaries' = r.sums
                    /\ user_profiles' = r.profs
                    /\ last' = [NoCall EXCEPT !.op = "load_data", !.ret = r.ret,
                                              !.raised = r.raised, !.profiles = r.profiles,
                                              !.errors = r.errors]
                    /\ disk' = disk
            IN  Assign(LoadBody(disk))
       ELSE LoadRaisesNameError
    /\ ops' = ops + 1
    /\ UNCHANGED <<tasks, sf, writable, now, appended>>

(***************************************************************************)
(* The store in operation                                                  *)
(***************************************************************************)
\* the files an earlier run has left: a composite document and a memories list
\* for user 1, an unreadable document and a blank events file for user 2, a
\* stray file; every other file is absent
PriorDisk ==
    [p \in Paths |->
        CASE p = ProfilePath(1) -> FileOf(Dumps(Doc42))
          [] p = ListPath("memories", 1) -> FileOf(Dumps(JArr(<<JInt(7)>>)))
          [] p = ProfilePath(2) -> FileOf(<<LBrace, Junk>>)
          [] p = StrayProfile -> FileOf(Dumps(Doc42))
          [] p = ListPath("events", 2) -> FileOf(<<Space>>)
          [] OTHER -> Absent]

Init ==
    /\ disk = PriorDisk
    /\ sf = SfIdle
    /\ tasks = NoTasks
    /\ (MemInit \/ MemBusy)
    /\ writable = TRUE
    /\ now = 0
    /\ appended = EmptyMap
    /\ last = NoCall
    /\ ops = 0

Next ==
    \/ save_data
    \/ load_data
    \/ verify_data_directories
    \/ \E u \in Users, mood \in Moods : UpdateEmotion(u, mood)
    \/ \E u \in Users : SetRelationship(u)
    \/ \E u \in Users : RecordInteraction(u)
    \/ \E f \in ListFamilies, u \in Users : AppendList(f, u)
    \/ \E f \in ListFamilies, u \in Users : ClearList(f, u)
    \/ \E u \in Users : EnableDm(u)
    \/ Remount

Spec == Init /\ [][Next]_vars

(***************************************************************************)
(* What the files of the store hold, as the claims speak of them           *)
(***************************************************************************)
\* the file at p holds a JSON document (of any shape)
Parses(d, p) == d[p].exists /\ Strip(d[p].text) # <<>> /\ Loads(d[p].text).ok

Parsed(d, p) == Loads(d[p].text).val

\* <uid>.json holds a well-formed composite document (a JSON object)
WellFormedComposite(d, u) == Parses(d, ProfilePath(u)) /\ IsObj(Parsed(d, ProfilePath(u)))

\* the file exists and is blank, or holds something that is no JSON
Blank(d, p) == d[p].exists /\ Strip(d[p].text) = <<>>
Corrupt(d, p) == d[p].exists /\ Strip(d[p].text) # <<>> /\ ~Loads(d[p].text).ok

(***************************************************************************)
(* C3: after load_data, for every well-formed composite document           *)
(* <uid>.json the relationship container for uid equals the document's     *)
(* relationship sub-document (empty if absent), the interaction-stats      *)
(* container its interaction_stats sub-document (empty if absent), and the *)
(* emotion record of uid is the rest of the document, holding neither key. *)
(***************************************************************************)
C3_SplitOnLoad ==
    last.op = "load_data" =>
        \A u \in Users : WellFormedComposite(disk, u) =>
            LET doc == Parsed(disk, ProfilePath(u)).val
            IN  /\ Get(relationship_progress, u, EmptyObj) = Get(doc, "relationship", EmptyObj)
                /\ Get(interaction_stats, u, EmptyObj) = Get(doc, "interaction_stats", EmptyObj)
                /\ u \in DOMAIN user_emotions
                /\ IsObj(user_emotions[u])
                /\ {"relationship", "interaction_stats"} \cap DOMAIN user_emotions[u].val = {}
                /\ Without(user_emotions[u].val, {"first_interaction"})
                     = Without(doc, {"relationship", "interaction_stats", "first_interaction"})

(***************************************************************************)
(* C4: load_data followed at once by save_data, nothing failing, writes    *)
(* for every well-formed composite document D a <uid>.json equal to D up   *)
(* to the order of its keys.                                               *)
(***************************************************************************)
C4_LoadThenSave ==
    [][(last.op = "load_data" /\ last'.op = "save_data" /\ last'.failed = {}) =>
          \A u \in Users : WellFormedComposite(disk, u) =>
              /\ ProfilePath(u) \in last'.written
              /\ WellFormedComposite(disk', u)
              /\ Parsed(disk', ProfilePath(u)) = Parsed(disk, ProfilePath(u))]_vars

(***************************************************************************)
(* C5: load_data loads every well-formed <uid>.json also when other files  *)
(* are corrupt; the error count it reports is the number of files whose    *)
(* name is no user id or whose content is no document; a blank file counts *)
(* as neither and a file counted as an error reaches no container.         *)
(***************************************************************************)
C5_PartialFailure ==
    last.op = "load_data" =>
        /\ \A u \in Users : WellFormedComposite(disk, u) => u \in DOMAIN user_emotions
        /\ last.profiles = Cardinality({u \in Users : WellFormedComposite(disk, u)})
        /\ last.errors = Cardinality({p \in Glob(disk, "profiles", "") :
                                         ~p.numeric \/ Corrupt(disk, p)})
        /\ \A u \in Users :
              (Blank(disk, ProfilePath(u)) \/ Corrupt(disk, ProfilePath(u))) =>
                  /\ u \notin DOMAIN user_emotions
                  /\ u \notin DOMAIN relationship_progress
                  /\ u \notin DOMAIN interaction_stats

(***************************************************************************)
(* C6: load_data never lets an error escape: whatever the files hold, it   *)
(* runs to its end and returns its indicator.                              *)
(***************************************************************************)
C6_LoadNeverRaises ==
    last.op = "load_data" => last.raised = "none"

(***************************************************************************)
(* C7: a blank or corrupt file of one user in one family costs only that   *)
(* entry: after load_data every well-formed file of another family or      *)
(* another user is in its container.                                       *)
(***************************************************************************)
C7_Isolation ==
    last.op = "load_data" =>
        \A bad \in DataPaths : (Blank(disk, bad) \/ Corrupt(disk, bad)) =>
            /\ \A f \in ListFamilies, u \in Users :
                  (ListPath(f, u) # bad /\ Parses(disk, ListPath(f, u))) =>
                      /\ u \in DOMAIN user_lists[f]
                      /\ user_lists[f][u] = Parsed(disk, ListPath(f, u))
            /\ \A u \in Users :
                  (ProfilePath(u) # bad /\ WellFormedComposite(disk, u)) =>
                      u \in DOMAIN user_emotions

(***************************************************************************)
(* C8: when the startup check fails, load_data returns False, reads no     *)
(* file and leaves every container it resets empty.                        *)
(***************************************************************************)
C8_StartupCheckFails ==
    (last.op = "load_data" /\ ~VerifyDataDirectories) =>
        /\ last.raised = "none"
        /\ last.ret = FALSE
        /\ user_emotions = EmptyMap
        /\ relationship_progress = EmptyMap
        /\ interaction_stats = EmptyMap
        /\ \A f \in ListFamilies : user_lists[f] = EmptyMap

(***************************************************************************)
(* C9: when the startup check passes, load_data returns True exactly when  *)
(* at least one composite document <uid>.json was loaded.                  *)
(***************************************************************************)
C9_ReturnSignal ==
    (last.op = "load_data" /\ VerifyDataDirectories) =>
        /\ last.raised = "none"
        /\ last.ret = (\E u \in Users : WellFormedComposite(disk, u))

(***************************************************************************)
(* C10, as it stands: a list file is written only from a non-empty list,   *)
(* a list that was never filled leaves no file, and the save_data that     *)
(* follows the list gaining an element writes the file with exactly the    *)
(* list's content (taken here for the passes in which no write fails).     *)
(***************************************************************************)
NonEmptyList(f, u) == u \in DOMAIN user_lists[f] /\ Truthy(user_lists[f][u])

C11_AggregateResult == (last.op = "save_data" /\ last.ret) => last.failed = {}

\* C18: save_all only reads the in-memory containers: every container has after
\* the call the value it had before it, so no emotion mapping ever holds a
\* relationship or interaction_stats key
C18_SaveOnlyReads ==
    [][last'.op = "save_data" =>
          /\ memvars' = memvars
          /\ \A u \in DOMAIN user_emotions' :
                IsObj(user_emotions'[u]) =>
                   {"relationship", "interaction_stats"} \cap DOMAIN user_emotions'[u].val = {}]_vars

\* C19: after load_all every container holds only entries read from disk in
\* that pass: no entry is left for a user with no corresponding file
C19_OnlyFromDisk ==
    last.op = "load_data" =>
        /\ \A u \in DOMAIN user_emotions : disk[ProfilePath(u)].exists
        /\ \A u \in DOMAIN relationship_progress : disk[ProfilePath(u)].exists
        /\ \A u \in DOMAIN interaction_stats : disk[ProfilePath(u)].exists
        /\ \A f \in ListFamilies : \A u \in DOMAIN user_lists[f] : disk[ListPath(f, u)].exists
        /\ dm_enabled_users \subseteq LoadDmSettings(disk)
        /\ \A u \in DOMAIN conversations : disk[ConversationPath(u)].exists
        /\ \A u \in DOMAIN conversation_summaries : disk[SummaryPath(u)].exists
        /\ \A u \in DOMAIN user_profiles : disk[UserProfilePath(u)].exists

(***************************************************************************)
(* The DM settings file: save_dm_settings and load_dm_settings called on   *)
(* their own                                                               *)
(***************************************************************************)
\* the document save_dm_settings writes for the list q
SettingsDoc(q) == JObj([k \in {"enabled_users"} |-> JArr([i \in 1..Len(q) |-> JInt(q[i])])])

\* what load_dm_settings prints: "loaded", "empty" (the warning of line 259),
\* "missing" (line 261) or "error" (line 263)
LoadDmSettingsReport(d) ==
    LET f == d[DmSettingsFile]
        Decoded(r) ==
            IF r.ok /\ IsObj(r.val)
               /\ (LET l == Get(r.val.val, "enabled_users", JArr(<<>>))
                   IN  IsArr(l) /\ \A i \in 1..Len(l.val) : l.val[i].type = "int")
            THEN "loaded" ELSE "error"
    IN  IF ~f.exists THEN "missing"
        ELSE IF Strip(f.text) = <<>> THEN "empty"
        ELSE Decoded(Loads(f.text))

\* async def save_dm_settings(self, dm_enabled_users)
save_dm_settings(S) ==
    /\ \E q \in Orders(S), F \in {{}, {DmSettingsFile}}, kind \in FaultKinds :
          LET Done(r) ==
                  /\ disk' = r.disk
                  /\ last' = [op |-> "save_dm_settings", arg |-> S, ret |-> r.ret,
                              raised |-> "none", val |-> {}, report |-> "none"]
          IN  Done(SaveDmSettings(disk, q, F, kind))
    /\ UNCHANGED <<tasks, sf, memvars, writable, now, appended, ops>>

\* async def load_dm_settings(self)
load_dm_settings ==
    /\ last' = [op |-> "load_dm_settings", arg |-> {}, ret |-> TRUE, raised |-> "none",
                val |-> LoadDmSettings(disk), report |-> LoadDmSettingsReport(disk)]
    /\ UNCHANGED <<tasks, disk, sf, memvars, writable, now, appended, ops>>

\* the settings file an earlier run or another writer has left: none, a blank
\* or unreadable one, or a document with the ids in some order
PriorSettings ==
    {Absent, FileOf(<<Space>>), FileOf(<<LBrace, Junk>>)}
    \cup {FileOf(Dumps(SettingsDoc(q))) : q \in UNION {Orders(S) : S \in SUBSET Users}}

InitSettings ==
    /\ \E f \in PriorSettings : disk = [EmptyDisk EXCEPT ![DmSettingsFile] = f]
    /\ sf = SfIdle
    /\ tasks = NoTasks
    /\ MemInit
    /\ writable = TRUE
    /\ now = 0
    /\ appended = EmptyMap
    /\ last = NoCall
    /\ ops = 0

NextSettings ==
    \/ \E S \in SUBSET Users : save_dm_settings(S)
    \/ load_dm_settings

SpecSettings == InitSettings /\ [][NextSettings]_vars

\* the ids of the enabled_users array of a settings file
IdsOnDisk(d) ==
    LET l == Loads(d[DmSettingsFile].text).val.val["enabled_users"].val
    IN  {l[i].val : i \in 1..Len(l)}

\* C13: save_dm_settings(S) followed by load_dm_settings() returns a set equal
\* to S, whatever order the enabled_users array has on disk; with no settings
\* file load_dm_settings returns the empty set and reports no error
C13_DmRoundTrip ==
    /\ [][(last.op = "save_dm_settings" /\ last.ret /\ last'.op = "load_dm_settings")
            => last'.val = last.arg]_vars
    /\ [](last.op = "load_dm_settings" =>
            /\ last.report = "loaded" => last.val = IdsOnDisk(disk)
            /\ ~disk[DmSettingsFile].exists => (last.val = {} /\ last.report = "missing"))

\* a load that returned both ids from a file listing them as 2, 1
C13_Witness ==
    /\ last.op = "load_dm_settings"
    /\ last.val = {1, 2}
    /\ disk[DmSettingsFile].text = Dumps(SettingsDoc(<<2, 1>>))

(***************************************************************************)
(* ConversationManager.add_message and the conversation file               *)
(***************************************************************************)
MAX_HISTORY == 10

JBool(b) == [type |-> "bool", val |-> b]

\* what add_message is called with: a message of the user, or one of the bot
MessageInputs == {[content |-> "hi", is_from_bot |-> FALSE],
                  [content |-> "yo", is_from_bot |-> TRUE]}

\* the record of lines 21-25
Message(content, t, is_from_bot) ==
    JObj([k \in {"content", "timestamp", "from_bot"} |->
            CASE k = "content" -> JStr(content)
              [] k = "timestamp" -> JTime(t)
              [] OTHER -> JBool(is_from_bot)])

KeepFirst(msgs) ==
    IF Len(msgs) > MAX_HISTORY THEN SubSeq(msgs, 1, MAX_HISTORY) ELSE msgs

\* lines 28-29: the list cut to its last MAX_HISTORY messages when it is longer
KeepLast(msgs) ==
    IF Len(msgs) > MAX_HISTORY
    THEN SubSeq(msgs, Len(msgs) - MAX_HISTORY + 1, Len(msgs))
    ELSE msgs

\* lines 21-29 on a user's list
Appended(msgs, msg) == KeepLast(Append(msgs, msg))

\* def add_message(self, user_id, content, is_from_bot=False); conversations is
\* a defaultdict(list), so a first message creates the user's list
add_message(user_id, content, is_from_bot) ==
    /\ ops < MaxOps
    /\ LET Store(msg) ==
               /\ conversations' =
                     Put(conversations, user_id,
                         JArr(Appended(Get(conversations, user_id, JArr(<<>>)).val, msg)))
               /\ appended' = Put(appended, user_id,
                                  Append(Get(appended, user_id, <<>>), msg))
       IN  Store(Message(content, now, is_from_bot))
    /\ last' = NoCall
    /\ ops' = ops + 1
    /\ UNCHANGED <<tasks, disk, sf, user_emotions, relationship_progress, interaction_stats,
                   user_lists, dm_enabled_users, conversation_summaries, user_profiles,
                   writable, now>>

\* async def save_conversation(self, user_id, conversation_manager)
save_conversation(user_id) ==
    /\ ops < MaxOps
    /\ \E F \in {{}, {ConversationPath(user_id)}, {SummaryPath(user_id)}},
          kind \in FaultKinds :
          LET Done(r) ==
                  /\ disk' = r.disk
                  /\ last' = [op |-> "save_conversation", arg |-> user_id, ret |-> r.ret,
                              raised |-> "none", failed |-> r.failed,
                              written |-> r.written]
          IN  Done(SaveConversation(user_id, disk, F, kind))
    /\ ops' = ops + 1
    /\ UNCHANGED <<tasks, sf, memvars, writable, now, appended>>

\* the conversation so far: none, or the messages of earlier add_message
\* calls, all different, alternately from the user and from the bot
EarlierContents == <<"a", "b", "c", "d", "e", "f", "g", "h", "i", "j", "k", "l">>
Earlier(n) == [i \in 1..n |-> Message(EarlierContents[i], 0, i % 2 = 0)]
EarlierLengths == {9, 12}

\* the list add_message has built from the messages given to it
RECURSIVE History(_)
History(log) ==
    IF log = <<>> THEN <<>>
    ELSE Appended(History(SubSeq(log, 1, Len(log) - 1)), log[Len(log)])

InitConv ==
    /\ disk = EmptyDisk
    /\ sf = SfIdle
    /\ tasks = NoTasks
    /\ user_emotions = EmptyMap
    /\ relationship_progress = EmptyMap
    /\ interaction_stats = EmptyMap
    /\ user_lists = [f \in ListFamilies |-> EmptyMap]
    /\ dm_enabled_users = {}
    /\ \E S \in SUBSET Users, n \in EarlierLengths :
          /\ appended = [u \in S |-> Earlier(n)]
          /\ conversations = [u \in S |-> JArr(History(Earlier(n)))]
    /\ conversation_summaries = EmptyMap
    /\ user_profiles = EmptyMap
    /\ writable = TRUE
    /\ now = 0
    /\ last = NoCall
    /\ ops = 0

NextConv ==
    \/ \E u \in Users, i \in MessageInputs : add_message(u, i.content, i.is_from_bot)
    \/ \E u \in Users : save_conversation(u)

SpecConv == InitConv /\ [][NextConv]_vars

\* the last k elements of a sequence
LastOf(log, k) == [i \in 1..k |-> log[Len(log) - k + i]]

\* C12: a user's in-memory history and the <uid>_conversations.json last
\* written hold at most 10 messages, and the history after n appends is the
\* most recent min(n, 10) appended messages in their original order
C12_BoundedHistory ==
    /\ DOMAIN conversations = DOMAIN appended
    /\ \A u \in DOMAIN appended :
          LET n == Len(appended[u])
          IN  /\ Len(conversations[u].val) <= 10
              /\ conversations[u].val = LastOf(appended[u], IF n < 10 THEN n ELSE 10)
    /\ \A u \in Users :
          disk[ConversationPath(u)].exists =>
              /\ Loads(disk[ConversationPath(u)].text).ok
              /\ Len(Loads(disk[ConversationPath(u)].text).val.val) <= 10

\* fourteen messages appended, messages 5..14 left, the history then saved
C12_Witness ==
    \E u \in DOMAIN appended :
        /\ Len(appended[u]) = 14
        /\ conversations[u].val[1] = appended[u][5]
        /\ disk[ConversationPath(u)].exists
        /\ Loads(disk[ConversationPath(u)].text).val = conversations[u]

(***************************************************************************)
(* UserProfile and the profile operations of ConversationManager.  A       *)
(* profile is its __dict__; a Python string built by join or an f-string   *)
(* is the sequence of its pieces.                                          *)
(***************************************************************************)
MaxTime == 1

\* hasattr(profile, k): an attribute of the instance or of its class
HasAttr(P, k) == k \in DOMAIN P.val \cup ProfileMethods

\* profile.m(...) finds the instance attribute m before the method of the class
Shadowed(P, m) == m \in DOMAIN P.val

\* def update_profile(self, field, value) at clock t
UpdateProfile(P, field, value, t) ==
    IF Shadowed(P, "update_profile")
    THEN [raised |-> "TypeError", ret |-> FALSE, profile |-> P]
    ELSE IF HasAttr(P, field)
    THEN [raised |-> "none", ret |-> TRUE,
          profile |-> JObj(Put(Put(P.val, field, value), "updated_at", JTime(t)))]
    ELSE [raised |-> "none", ret |-> FALSE, profile |-> P]

\* def to_dict(self): {k: v for k, v in self.__dict__.items()}
ToDict(P) ==
    IF Shadowed(P, "to_dict") THEN [raised |-> "TypeError", val |-> JNull]
    ELSE [raised |-> "none", val |-> JObj([k \in DOMAIN P.val |-> P.val[k]])]

\* sep.join(parts) for a list of strings, each part a sequence of pieces
RECURSIVE Join(_, _)
Join(sep, parts) ==
    IF parts = <<>> THEN <<>>
    ELSE IF Len(parts) = 1 THEN parts[1]
    ELSE parts[1] \o <<sep>> \o Join(sep, Tail(parts))

\* list[:k]
Slice(list, k) == SubSeq(list, 1, IF Len(list) < k THEN Len(list) ELSE k)

\* the strings of a list of str values, each as one piece
Pieces(list) == [i \in 1..Len(list) |-> <<list[i].val>>]

\* def get_summary(self)
GetSummary(P) ==
    LET f == P.val
        name == IF Truthy(f["preferred_name"]) THEN <<<<"Name: ", f["preferred_name"].val>>>>
                ELSE IF Truthy(f["nickname"]) THEN <<<<"Name: ", f["nickname"].val>>>>
                ELSE IF Truthy(f["name"]) THEN <<<<"Name: ", f["name"].val>>>>
                ELSE <<>>
        Section(label, k, n, sep) ==
            IF Truthy(f[k])
            THEN <<<<label>> \o Join(sep, Pieces(Slice(f[k].val, n)))>>
            ELSE <<>>
        summary == name
                   \o Section("Personality: ", "personality_traits", 3, ", ")
                   \o Section("Interests: ", "interests", 3, ", ")
                   \o Section("Notable facts: ", "notable_facts", 2, "; ")
                   \o Section("Relationship context: ", "relationship_context", 2, "; ")
    IN  IF Shadowed(P, "get_summary") THEN [raised |-> "TypeError", val |-> <<>>]
        ELSE [raised |-> "none", val |-> Join(" | ", summary)]

\* def get_preferred_name(self, user_id): the name or None
GetPreferredName(profs, user_id) ==
    IF user_id \notin DOMAIN profs THEN JNull
    ELSE IF Truthy(profs[user_id].val["preferred_name"])
    THEN profs[user_id].val["preferred_name"]
    ELSE IF Truthy(profs[user_id].val["nickname"]) THEN profs[user_id].val["nickname"]
    ELSE IF Truthy(profs[user_id].val["name"]) THEN profs[user_id].val["name"]
    ELSE JNull

\* def get_or_create_profile(self, user_id, username=None): the profiles after it
GetOrCreateProfile(profs, user_id, username, t) ==
    IF user_id \in DOMAIN profs THEN profs
    ELSE Put(profs, user_id,
             JObj(IF Truthy(username)
                  THEN Put(NewProfile(JInt(user_id), t), "name", username)
                  ELSE NewProfile(JInt(user_id), t)))

\* the texts extract_profile_info is given, and what the patterns of lines
\* 71-124 find in each: interests, traits, facts, and the name with the
\* field it goes to (line 130)
Messages == {"hello", "I love hiking", "I am shy", "I am a nurse", "call me Al",
             "my name is Bo"}
Extracted(msg) ==
    [interests |-> IF msg = "I love hiking" THEN <<JStr("hiking")>> ELSE <<>>,
     traits |-> IF msg = "I am shy" THEN <<JStr("shy")>> ELSE <<>>,
     facts |-> IF msg = "I am a nurse" THEN <<JStr("I am a nurse")>> ELSE <<>>,
     names |-> CASE msg = "call me Al" -> <<[field |-> "nickname", value |-> JStr("Al")]>>
                 [] msg = "my name is Bo" -> <<[field |-> "name", value |-> JStr("Bo")]>>
                 [] OTHER -> <<>>]

\* if x not in list: list.append(x), for each x found
RECURSIVE AppendNew(_, _)
AppendNew(list, found) ==
    IF found = <<>> THEN list
    ELSE AppendNew(IF \E i \in 1..Len(list) : list[i] = Head(found)
                   THEN list ELSE Append(list, Head(found)),
                   Tail(found))

RECURSIVE SetNames(_, _)
SetNames(m, names) ==
    IF names = <<>> THEN m
    ELSE SetNames(Put(m, Head(names).field, Head(names).value), Tail(names))

\* def extract_profile_info(self, user_id, message_content) on the profile
ExtractProfileInfo(P, msg, t) ==
    LET e == Extracted(msg)
        Lists(m) ==
            [k \in DOMAIN m |->
                CASE k = "interests" -> JArr(AppendNew(m[k].val, e.interests))
                  [] k = "personality_traits" -> JArr(AppendNew(m[k].val, e.traits))
                  [] k = "notable_facts" -> JArr(AppendNew(m[k].val, e.facts))
                  [] OTHER -> m[k]]
    IN  JObj(Put(SetNames(Lists(P.val), e.names), "updated_at", JTime(t)))

\* what update_profile is called with: data fields, the two time stamps, names
\* of methods, and a name the profile does not have
UpdateInputs ==
    {[field |-> "name", value |-> JStr("Al")],
     [field |-> "preferred_name", value |-> JStr("")],
     [field |-> "interests", value |-> JArr(<<JStr("chess"), JStr("go"), JStr("tea"), JStr("art")>>)],
     [field |-> "notable_facts", value |-> JArr(<<JStr("f1"), JStr("f2"), JStr("f3")>>)],
     [field |-> "created_at", value |-> JTime(MaxTime + 1)],
     [field |-> "to_dict", value |-> JStr("x")],
     [field |-> "get_summary", value |-> JStr("x")],
     [field |-> "age", value |-> JInt(3)]}

\* name, nickname, preferred_name of update_name_recognition
NameInputs ==
    {[name |-> JNull, nickname |-> JNull, preferred_name |-> JNull],
     [name |-> JStr("Bo"), nickname |-> JNull, preferred_name |-> JNull],
     [name |-> JNull, nickname |-> JStr("Al"), preferred_name |-> JNull],
     [name |-> JNull, nickname |-> JNull, preferred_name |-> JStr("Cy")],
     [name |-> JNull, nickname |-> JStr(""), preferred_name |-> JStr("Cy")]}

\* the documents from_dict is given besides encoded profiles: without user_id,
\* with some fields only, with keys that are no data fields
Documents ==
    {JObj(EmptyMap),
     JObj([k \in {"name"} |-> JStr("Al")]),
     JObj([k \in {"user_id", "age"} |-> IF k = "user_id" THEN JInt(1) ELSE JInt(3)]),
     JObj([k \in {"user_id", "to_dict"} |-> IF k = "user_id" THEN JInt(1) ELSE JStr("x")])}

Returned(op, arg, ret, val) ==
    [op |-> op, arg |-> arg, raised |-> "none", ret |-> ret, val |-> val, t |-> now]

Raised(op, arg, exc) ==
    [op |-> op, arg |-> arg, raised |-> exc, ret |-> FALSE, val |-> JNull, t |-> now]

\* def get_or_create_profile(self, user_id, username=None)
get_or_create_profile(user_id, username) ==
    /\ ops < MaxOps
    /\ user_profiles' = GetOrCreateProfile(user_profiles, user_id, username, now)
    /\ last' = Returned("get_or_create_profile", user_id, TRUE, user_profiles'[user_id])
    /\ ops' = ops + 1
    /\ UNCHANGED <<tasks, disk, sf, user_emotions, relationship_progress, interaction_stats,
                   user_lists, dm_enabled_users, conversations, conversation_summaries,
                   writable, now, appended>>

\* profile.update_profile(field, value) on the profile of user_id
update_profile(user_id, field, value) ==
    /\ ops < MaxOps
    /\ user_id \in DOMAIN user_profiles
    /\ LET Done(r) ==
               /\ user_profiles' = [user_profiles EXCEPT ![user_id] = r.profile]
               /\ last' = IF r.raised = "none"
                          THEN Returned("update_profile", [user_id |-> user_id, field |-> field],
                                        r.ret, JNull)
                          ELSE Raised("update_profile", [user_id |-> user_id, field |-> field],
                                      r.raised)
       IN  Done(UpdateProfile(user_profiles[user_id], field, value, now))
    /\ ops' = ops + 1
    /\ UNCHANGED <<tasks, disk, sf, user_emotions, relationship_progress, interaction_stats,
                   user_lists, dm_enabled_users, conversations, conversation_summaries,
                   writable, now, appended>>

\* def update_name_recognition(self, user_id, name=None, nickname=None, preferred_name=None)
update_name_recognition(user_id, name, nickname, preferred_name) ==
    /\ ops < MaxOps
    /\ LET Named(P) ==
               JObj([k \in DOMAIN P.val |->
                       CASE k = "name" /\ Truthy(name) -> name
                         [] k = "nickname" /\ Truthy(nickname) -> nickname
                         [] k = "preferred_name" /\ Truthy(preferred_name) -> preferred_name
                         [] k = "updated_at" -> JTime(now)
                         [] OTHER -> P.val[k]])
           Done(profs) ==
               /\ user_profiles' = [profs EXCEPT ![user_id] = Named(profs[user_id])]
               /\ last' = Returned("update_name_recognition", user_id, TRUE,
                                   user_profiles'[user_id])
       IN  Done(GetOrCreateProfile(user_profiles, user_id, JNull, now))
    /\ ops' = ops + 1
    /\ UNCHANGED <<tasks, disk, sf, user_emotions, relationship_progress, interaction_stats,
                   user_lists, dm_enabled_users, conversations, conversation_summaries,
                   writable, now, appended>>

\* def extract_profile_info(self, user_id, message_content)
extract_profile_info(user_id, message_content) ==
    /\ ops < MaxOps
    /\ LET Done(profs) ==
               /\ user_profiles' =
                     [profs EXCEPT ![user_id] =
                         ExtractProfileInfo(profs[user_id], message_content, now)]
               /\ last' = Returned("extract_profile_info", user_id, TRUE,
                                   user_profiles'[user_id])
       IN  Done(GetOrCreateProfile(user_profiles, user_id, JNull, now))
    /\ ops' = ops + 1
    /\ UNCHANGED <<tasks, disk, sf, user_emotions, relationship_progress, interaction_stats,
                   user_lists, dm_enabled_users, conversations, conversation_summaries,
                   writable, now, appended>>

\* profile.to_dict() on the profile of user_id
to_dict(user_id) ==
    /\ ops < MaxOps
    /\ user_id \in DOMAIN user_profiles
    /\ LET Done(r) ==
               last' = IF r.raised = "none" THEN Returned("to_dict", user_id, TRUE, r.val)
                       ELSE Raised("to_dict", user_id, r.raised)
       IN  Done(ToDict(user_profiles[user_id]))
    /\ ops' = ops + 1
    /\ UNCHANGED <<tasks, disk, sf, memvars, writable, now, appended>>

\* UserProfile.from_dict(data): data is a document, or what to_dict just returned
from_dict(data) ==
    /\ ops < MaxOps
    /\ last' = Returned("from_dict", data, TRUE, FromDict(data, now))
    /\ ops' = ops + 1
    /\ UNCHANGED <<tasks, disk, sf, memvars, writable, now, appended>>

\* profile.get_summary() on the profile of user_id
get_summary(user_id) ==
    /\ ops < MaxOps
    /\ user_id \in DOMAIN user_profiles
    /\ LET Done(r) ==
               last' = IF r.raised = "none" THEN Returned("get_summary", user_id, TRUE, r.val)
                       ELSE Raised("get_summary", user_id, r.raised)
       IN  Done(GetSummary(user_profiles[user_id]))
    /\ ops' = ops + 1
    /\ UNCHANGED <<tasks, disk, sf, memvars, writable, now, appended>>

\* def get_preferred_name(self, user_id)
get_preferred_name(user_id) ==
    /\ ops < MaxOps
    /\ last' = Returned("get_preferred_name", user_id, TRUE,
                        GetPreferredName(user_profiles, user_id))
    /\ ops' = ops + 1
    /\ UNCHANGED <<tasks, disk, sf, memvars, writable, now, appended>>

\* the clock of datetime.now advances
Tick ==
    /\ now < MaxTime
    /\ now' = now + 1
    /\ UNCHANGED <<tasks, disk, sf, memvars, writable, appended, last, ops>>

InitProfile ==
    /\ disk = EmptyDisk
    /\ sf = SfIdle
    /\ tasks = NoTasks
    /\ MemInit
    /\ writable = TRUE
    /\ now = 0
    /\ appended = EmptyMap
    /\ last = NoCall
    /\ ops = 0

NextProfile ==
    \/ \E u \in Users, n \in {JNull, JStr("Di")} : get_or_create_profile(u, n)
    \/ \E u \in Users, i \in UpdateInputs : update_profile(u, i.field, i.value)
    \/ \E u \in Users, i \in NameInputs :
          update_name_recognition(u, i.name, i.nickname, i.preferred_name)
    \/ \E u \in Users, msg \in Messages : extract_profile_info(u, msg)
    \/ \E u \in Users : to_dict(u)
    \/ \E data \in Documents \cup (IF last.op = "to_dict" /\ last.raised = "none"
                                   THEN {last.val} ELSE {}) : from_dict(data)
    \/ \E u \in Users : get_summary(u)
    \/ \E u \in Users : get_preferred_name(u)
    \/ Tick

SpecProfile == InitProfile /\ [][NextProfile]_vars

(***************************************************************************)
(* UserProfile: the statements about update_profile, the time stamps,      *)
(* from_dict, the round trip and the summary                               *)
(***************************************************************************)

\* C15: update_profile(field, value) applies the change and returns True only
\* when field is a data field of the profile; for every other name, the names
\* of the profile's own methods included, it returns False and changes no
\* field, updated_at included, and creates or replaces no attribute
C15_OnlyDataFields ==
    [][last'.op = "update_profile" =>
          /\ last'.raised = "none"
          /\ last'.ret = (last'.arg.field \in ProfileFields)
          /\ last'.arg.field \notin ProfileFields => user_profiles' = user_profiles]_vars

\* C16: no update_profile, update_name_recognition or extract_profile_info call
\* changes the created_at of a profile that exists, and the updated_at of a
\* profile never moves back
C16_CreatedAtImmutable ==
    [][\A u \in DOMAIN user_profiles \cap DOMAIN user_profiles' :
          /\ user_profiles'[u].val["created_at"] = user_profiles[u].val["created_at"]
          /\ user_profiles'[u].val["updated_at"].val >= user_profiles[u].val["updated_at"].val
          /\ user_profiles'[u] # user_profiles[u] =>
                user_profiles'[u].val["updated_at"] = JTime(now)]_vars

\* C17: from_dict leaves every field the document lacks at its constructor
\* default, creates or overwrites no attribute for a key that is no data
\* field, and gives user_id None for a document without user_id
C17_FromDictDefaults ==
    last.op = "from_dict" =>
        /\ DOMAIN last.val.val = ProfileFields
        /\ \A k \in ProfileFields :
              last.val.val[k] =
                 IF k \in DOMAIN last.arg.val THEN last.arg.val[k]
                 ELSE NewProfile(JNull, last.t)[k]

\* C14: every profile encodes with to_dict, and from_dict of that document has
\* every field equal to the profile's and encodes to the same document again
C14_RoundTrip ==
    /\ [](last.op = "to_dict" => last.raised = "none")
    /\ [][(last.op = "to_dict" /\ last.raised = "none"
           /\ last'.op = "from_dict" /\ last'.arg = last.val) =>
              /\ last'.val = user_profiles[last.arg]
              /\ ToDict(last'.val) = [raised |-> "none", val |-> last.val]]_vars

\* the sections of a summary in their order: label, field, entries kept, separator
SummarySections ==
    <<[label |-> "Personality: ", field |-> "personality_traits", keep |-> 3, sep |-> ", "],
      [label |-> "Interests: ", field |-> "interests", keep |-> 3, sep |-> ", "],
      [label |-> "Notable facts: ", field |-> "notable_facts", keep |-> 2, sep |-> "; "],
      [label |-> "Relationship context: ", field |-> "relationship_context",
       keep |-> 2, sep |-> "; "]>>

\* the line made of the display name and the non-empty sections of profile P
RECURSIVE SectionsFrom(_, _)
SectionsFrom(P, i) ==
    IF i > Len(SummarySections) THEN <<>>
    ELSE LET s == SummarySections[i]
             list == P.val[s.field].val
             kept == [j \in 1..(IF Len(list) < s.keep THEN Len(list) ELSE s.keep) |->
                         <<list[j].val>>]
         IN  (IF list = <<>> THEN <<>> ELSE <<(<<s.label>> \o Join(s.sep, kept))>>)
             \o SectionsFrom(P, i + 1)

ExpectedSummary(P) ==
    LET display == GetPreferredName([u \in {0} |-> P], 0)
    IN  Join(" | ", (IF display = JNull THEN <<>> ELSE <<(<<"Name: ", display.val>>)>>)
                    \o SectionsFrom(P, 1))

\* C20: get_summary returns the ' | '-joined line of the display name
\* (preferred_name, else nickname, else name, left out when none is set), at
\* most 3 personality traits, 3 interests, 2 notable facts and 2
\* relationship-context entries, in this order, a section only when its
\* source is non-empty, and the empty string for a profile with nothing set
C20_Summary ==
    last.op = "get_summary" =>
        /\ last.raised = "none"
        /\ last.val = ExpectedSummary(user_profiles[last.arg])

EmptiedList(f, u) ==
    /\ ~NonEmptyList(f, u)
    /\ Parses(disk, ListPath(f, u))
    /\ Truthy(Parsed(disk, ListPath(f, u)))

\* C26: save_all never deletes or empties an existing data file: the file of a
\* list that is empty in memory still holds the list saved earlier after the
\* pass, and the next load_all (its startup check passing) puts that list back
\* into memory
C26_EmptiedListKept ==
    [][/\ last'.op = "save_data" =>
             /\ \A p \in DataPaths :
                   (disk[p].exists /\ Strip(disk[p].text) # <<>>) =>
                       (disk'[p].exists /\ Strip(disk'[p].text) # <<>>)
             /\ \A f \in ListFamilies, u \in Users :
                   EmptiedList(f, u) => disk'[ListPath(f, u)] = disk[ListPath(f, u)]
       /\ (last'.op = "load_data" /\ VerifyDataDirectories) =>
             \A f \in ListFamilies, u \in Users :
                 EmptiedList(f, u) =>
                     /\ u \in DOMAIN user_lists'[f]
                     /\ user_lists'[f][u] = Parsed(disk, ListPath(f, u))]_vars

(***************************************************************************)
(* The store with a conversation manager: save_data and load_data when     *)
(* users have histories, summaries and profiles, and a new process on the  *)
(* files an earlier one wrote                                              *)
(***************************************************************************)
\* the summary the fallback of lines 168-182 stores for messages whose words
\* are all short (no summarizer passed)
NoTopicSummary == JStr("Brief conversation with no clear topic.")

\* def generate_summary(self, user_id, transformer_helper=None)
generate_summary(user_id) ==
    /\ ops < MaxOps
    /\ conversation_summaries' =
          IF user_id \notin DOMAIN conversations THEN conversation_summaries
          ELSE IF ~IsArr(conversations[user_id]) THEN conversation_summaries
          ELSE IF Len(conversations[user_id].val) < 3 THEN conversation_summaries
          ELSE Put(conversation_summaries, user_id, NoTopicSummary)
    /\ last' = [NoCall EXCEPT !.op = "generate_summary"]
    /\ ops' = ops + 1
    /\ UNCHANGED <<tasks, disk, sf, user_emotions, relationship_progress, interaction_stats,
                   user_lists, dm_enabled_users, conversations, user_profiles,
                   writable, now, appended>>

\* the process ends and a new one starts: freshly constructed managers, the
\* files as they are
NewProcess ==
    /\ ops < MaxOps
    /\ user_emotions' = EmptyMap
    /\ relationship_progress' = EmptyMap
    /\ interaction_stats' = EmptyMap
    /\ user_lists' = [f \in ListFamilies |-> EmptyMap]
    /\ dm_enabled_users' = {}
    /\ conversations' = EmptyMap
    /\ conversation_summaries' = EmptyMap
    /\ user_profiles' = EmptyMap
    /\ appended' = EmptyMap
    /\ last' = [NoCall EXCEPT !.op = "new_process"]
    /\ ops' = ops + 1
    /\ UNCHANGED <<tasks, disk, sf, writable, now>>

\* the managers after some use: emotion records for the users of E, a history
\* of three messages for those of C, a summary for those of S, a profile for
\* those of P
InUse(E, C, S, P) ==
    /\ user_emotions = [u \in E |-> JObj([k \in {"mood"} |-> JStr("happy")])]
    /\ relationship_progress = EmptyMap
    /\ interaction_stats = EmptyMap
    /\ user_lists = [f \in ListFamilies |-> EmptyMap]
    /\ dm_enabled_users = {}
    /\ conversations = [u \in C |-> JArr(History(Earlier(3)))]
    /\ appended = [u \in C |-> Earlier(3)]
    /\ conversation_summaries = [u \in S |-> NoTopicSummary]
    /\ user_profiles = [u \in P |-> JObj(Put(NewProfile(JInt(u), 0), "name", JStr("Di")))]

InitCM ==
    /\ disk = EmptyDisk
    /\ sf = SfIdle
    /\ tasks = NoTasks
    /\ \E C \in {{}, {1}, Users}, P \in {{}, {1}, Users} :
          \E S \in {{}, C} : InUse({1}, C, S, P)
    /\ writable = TRUE
    /\ now = 0
    /\ last = NoCall
    /\ ops = 0

NextCM ==
    \/ save_data
    \/ load_data
    \/ NewProcess
    \/ \E u \in Users, i \in MessageInputs : add_message(u, i.content, i.is_from_bot)
    \/ \E u \in Users : generate_summary(u)
    \/ \E u \in Users, n \in {JNull, JStr("Di")} : get_or_create_profile(u, n)

SpecCM == InitCM /\ [][NextCM]_vars

\* the writes a pass attempted
Attempted(call) == call.written \cup call.failed

\* C22: with a conversation manager supplied, save_all decides each of the
\* three conversation-side writes of a user of the emotion container from that
\* document's own source alone: the history file iff the history is
\* non-empty, the summary file iff the summary is non-empty, the profile
\* document iff the user has a profile
C22_OwnSourceDecides ==
    [][(last'.op = "save_data" /\ last'.cm) =>
          \A u \in DOMAIN user_emotions :
              /\ ConversationPath(u) \in Attempted(last')
                    <=> (u \in DOMAIN conversations /\ Truthy(conversations[u]))
              /\ SummaryPath(u) \in Attempted(last')
                    <=> (u \in DOMAIN conversation_summaries
                           /\ Truthy(conversation_summaries[u]))
              /\ UserProfilePath(u) \in Attempted(last')
                    <=> u \in DOMAIN user_profiles]_vars

\* <uid>_profile.json holds a JSON object
WellFormedProfile(d, u) ==
    Parses(d, UserProfilePath(u)) /\ IsObj(Parsed(d, UserProfilePath(u)))

\* C21: in a process whose conversation manager is freshly constructed,
\* load_all (its startup check passing) puts into user_profiles[uid] the
\* profile decoded from every well-formed <uid>_profile.json, so that every
\* profile save_all wrote is restored
C21_ProfilesRestored ==
    [][(last.op = "new_process" /\ last'.op = "load_data" /\ VerifyDataDirectories) =>
          \A u \in Users : WellFormedProfile(disk, u) =>
              /\ u \in DOMAIN user_profiles'
              /\ \A k \in ProfileFields \cap DOMAIN Parsed(disk, UserProfilePath(u)).val :
                    user_profiles'[u].val[k] = Parsed(disk, UserProfilePath(u)).val[k]]_vars

(***************************************************************************)
(* save_file interrupted, then load_data: a process is killed inside       *)
(* save_file and the next one loads what is on disk                        *)
(***************************************************************************)
\* one target of each kind load_data reads: a composite document, a list, a
\* conversation history, the settings file
CrashTargets == {ProfilePath(1), ListPath("memories", 1), ConversationPath(1), DmSettingsFile}

\* what an earlier save left at a target, and what the interrupted save_file
\* is writing to it
OldValue(path) ==
    CASE path = ProfilePath(1) -> JObj([k \in {"mood", "first_interaction"} |->
                                          IF k = "mood" THEN JStr("happy") ELSE JTime(0)])
      [] path = ListPath("memories", 1) -> JArr(<<JInt(7)>>)
      [] path = ConversationPath(1) -> JArr(<<Message("a", 0, FALSE)>>)
      [] OTHER -> JObj([k \in {"enabled_users"} |-> JArr(<<JInt(1)>>)])

NewValue(path) ==
    CASE path = ProfilePath(1) -> JObj([k \in {"mood", "first_interaction"} |->
                                          IF k = "mood" THEN JStr("sad") ELSE JTime(0)])
      [] path = ListPath("memories", 1) -> JArr(<<JInt(7), JInt(8)>>)
      [] path = ConversationPath(1) -> JArr(<<Message("a", 0, FALSE), Message("b", 0, TRUE)>>)
      [] OTHER -> JObj([k \in {"enabled_users"} |-> JArr(<<JInt(1), JInt(2)>>)])

InitCrash ==
    /\ \E present \in SUBSET CrashTargets :
          disk = [p \in Paths |-> IF p \in present THEN FileOf(Dumps(OldValue(p))) ELSE Absent]
    /\ sf = SfIdle
    /\ tasks = NoTasks
    /\ MemInit
    /\ writable = TRUE
    /\ now = 0
    /\ appended = EmptyMap
    /\ last = NoCall
    /\ ops = 0

NextCrash ==
    \/ \E path \in CrashTargets : SaveFileCall(path, NewValue(path))
    \/ SaveFileDumps
    \/ SaveFileOpen
    \/ SaveFileWrite
    \/ SaveFileIOError
    \/ SaveFileReplace
    \/ Kill
    \/ Restart
    \/ load_data

SpecCrash == InitCrash /\ [][NextCrash]_vars

\* what memory holds for the entity stored at path: its value (None when
\* there is none), for the settings file the set of enabled users
InMemory(path, emotions, lists, convs, dm) ==
    CASE path = ProfilePath(1) -> Get(emotions, 1, JNull)
      [] path = ListPath("memories", 1) -> Get(lists["memories"], 1, JNull)
      [] path = ConversationPath(1) -> Get(convs, 1, JNull)
      [] OTHER -> dm

\* the entity the document of a file at path encodes, and what memory has
\* when there is none
Stored(path, file) ==
    LET Of(v) == IF path = DmSettingsFile
                 THEN {v.val["enabled_users"].val[i].val :
                          i \in 1..Len(v.val["enabled_users"].val)}
                 ELSE v
    IN  Of(Loads(file.text).val)

Nothing(path) == IF path = DmSettingsFile THEN {} ELSE JNull

\* C25: when save_file was interrupted after its temporary file was written
\* and before the rename, a load_all that follows loads the target's old
\* content, or nothing if the target did not exist, and nothing of the
\* leftover .tmp file
C25_InterruptedSave ==
    [][(/\ sf.pc = "killed"
        /\ ~sf.renamed
        /\ disk[TempPath(sf.path)].exists
        /\ last'.op = "load_data"
        /\ ops' = ops + 1) =>
           InMemory(sf.path, user_emotions', user_lists', conversations', dm_enabled_users')
              = IF sf.pre.exists THEN Stored(sf.path, sf.pre) ELSE Nothing(sf.path)]_vars

(***************************************************************************)
(* Two save_file calls at once, on different targets, their steps          *)
(* interleaved in any order                                                *)
(***************************************************************************)
\* targets of different users, of different families of one user, and the
\* settings file
PairTargets == {ProfilePath(1), ProfilePath(2), ListPath("memories", 1), DmSettingsFile}

PairInputs == {Doc42, JArr(<<JInt(1), JInt(2)>>)}

Other(i) == 3 - i

\* save_file(path, data) is entered by task i; the other task, if it has
\* called, works on another target
TaskCall(i, path, data) ==
    /\ tasks[i].pc = "idle"
    /\ tasks[Other(i)].pc # "idle" => tasks[Other(i)].path # path
    /\ tasks' = [tasks EXCEPT ![i] = [TaskIdle EXCEPT !.pc = "dumps", !.path = path,
                                                      !.data = data]]
    /\ UNCHANGED <<disk, sf, memvars, writable, now, appended, last, ops>>

\* json.dumps(data, indent=2)
TaskDumps(i) ==
    /\ tasks[i].pc = "dumps"
    /\ tasks' = [tasks EXCEPT ![i] =
                    IF Serializable(tasks[i].data)
                    THEN [tasks[i] EXCEPT !.pc = "open", !.text = Dumps(tasks[i].data)]
                    ELSE [tasks[i] EXCEPT !.pc = "done", !.ret = FALSE, !.fault = TRUE]]
    /\ UNCHANGED <<disk, sf, memvars, writable, now, appended, last, ops>>

\* write_text opens temp_path for writing
TaskOpen(i) ==
    /\ tasks[i].pc = "open"
    /\ disk' = WriteText(disk, TempPath(tasks[i].path), <<>>)
    /\ tasks' = [tasks EXCEPT ![i] =
                    [tasks[i] EXCEPT !.pc = "write",
                              !.met = tasks[Other(i)].pc \in {"write", "replace"}]]
    /\ UNCHANGED <<sf, memvars, writable, now, appended, last, ops>>

\* write_text: one more chunk reaches the temporary file
TaskWrite(i) ==
    /\ tasks[i].pc = "write"
    /\ LET k == tasks[i].written + 1
       IN  IF k <= Len(tasks[i].text)
           THEN /\ disk' = WriteText(disk, TempPath(tasks[i].path),
                                     SubSeq(tasks[i].text, 1, k))
                /\ tasks' = [tasks EXCEPT ![i] =
                                [tasks[i] EXCEPT
                                    !.written = k,
                                    !.pc = IF k = Len(tasks[i].text) THEN "replace"
                                           ELSE "write"]]
           ELSE /\ disk' = disk
                /\ tasks' = [tasks EXCEPT ![i] = [tasks[i] EXCEPT !.pc = "replace"]]
    /\ UNCHANGED <<sf, memvars, writable, now, appended, last, ops>>

\* an OSError while opening or writing the temporary file: caught, returns False
TaskIOError(i) ==
    /\ tasks[i].pc \in {"open", "write"}
    /\ tasks' = [tasks EXCEPT ![i] = [tasks[i] EXCEPT !.pc = "done", !.ret = FALSE,
                                               !.fault = TRUE]]
    /\ UNCHANGED <<disk, sf, memvars, writable, now, appended, last, ops>>

\* if temp_path.exists(): temp_path.replace(path); return True
TaskReplace(i) ==
    /\ tasks[i].pc = "replace"
    /\ IF disk[TempPath(tasks[i].path)].exists
       THEN \E ok \in BOOLEAN :
               /\ disk' = Replace(disk, TempPath(tasks[i].path), tasks[i].path, ok)
               /\ tasks' = [tasks EXCEPT ![i] = [tasks[i] EXCEPT !.pc = "done", !.ret = ok,
                                                          !.fault = ~ok]]
       ELSE /\ disk' = disk
            /\ tasks' = [tasks EXCEPT ![i] = [tasks[i] EXCEPT !.pc = "done", !.ret = FALSE]]
    /\ UNCHANGED <<sf, memvars, writable, now, appended, last, ops>>

InitPair ==
    /\ \E old \in {Absent, FileOf(Dumps(JArr(<<JInt(7)>>)))} :
          disk = [p \in Paths |-> IF p \in PairTargets THEN old ELSE Absent]
    /\ sf = SfIdle
    /\ tasks = NoTasks
    /\ MemInit
    /\ writable = TRUE
    /\ now = 0
    /\ appended = EmptyMap
    /\ last = NoCall
    /\ ops = 0

NextPair ==
    \E i \in {1, 2} :
        \/ \E path \in PairTargets, data \in PairInputs : TaskCall(i, path, data)
        \/ TaskDumps(i)
        \/ TaskOpen(i)
        \/ TaskWrite(i)
        \/ TaskIOError(i)
        \/ TaskReplace(i)

SpecPair == InitPair /\ [][NextPair]_vars

\* C24: two save_file calls on different targets, their temp-write and rename
\* steps interleaved in any order, each finish with their own target holding
\* exactly their own new content: the two temporary paths differ, and no step
\* of one call changes the target or the temporary file of the other
C24_DisjointSaves ==
    /\ [](\A i \in {1, 2} :
            (tasks[i].pc = "done" /\ ~tasks[i].fault) =>
                /\ tasks[i].ret
                /\ disk[tasks[i].path] = FileOf(Dumps(tasks[i].data)))
    /\ []((tasks[1].pc # "idle" /\ tasks[2].pc # "idle") =>
            /\ TempPath(tasks[1].path) # TempPath(tasks[2].path)
            /\ TempPath(tasks[1].path) # tasks[2].path
            /\ TempPath(tasks[2].path) # tasks[1].path)
    /\ [][\A i \in {1, 2} :
            (tasks[i].pc # "idle" /\ tasks'[i] = tasks[i]) =>
                /\ disk'[tasks[i].path] = disk[tasks[i].path]
                /\ disk'[TempPath(tasks[i].path)] = disk[TempPath(tasks[i].path)]]_vars

\* both calls have returned True with different documents at their targets,
\* each having opened its temporary file while the other's was being written
\* or awaited its rename
C24_Witness ==
    /\ \A i \in {1, 2} : tasks[i].pc = "done" /\ tasks[i].ret
                         /\ disk[tasks[i].path] = FileOf(Dumps(tasks[i].data))
    /\ tasks[1].data # tasks[2].data
    /\ tasks[2].met
    /\ tasks[1].path = ProfilePath(1)
    /\ tasks[2].path = ListPath("memories", 1)

====
